---- MODULE Spec2Model ----
(***************************************************************************)
(* A model of specparse.SpecificationParser (src/specparse/specparser.py)  *)
(* and of its near-duplicate configurator.ConfigurationParser.             *)
(*                                                                         *)
(* Python values are tagged records, so that values of different Python    *)
(* types are never equal:                                                  *)
(*   [i |-> n] an int, [s |-> t] a str, [none |-> TRUE] None,              *)
(*   [l |-> q] a list, [m |-> f] a dict, [f |-> n] a callable.             *)
(* A Python str is a sequence of tokens: "=" and "." are the two           *)
(* separator characters the code splits on, every other token stands for   *)
(* a non-empty run of characters that holds neither.  Dict keys are such   *)
(* strings.                                                                *)
(***************************************************************************)
EXTENDS Integers, Sequences, FiniteSets, TLC

VARIABLES
    fs,                 \* the files on disk: path -> parsed YAML document
    schema_path,        \* self.schema_path ("" when None)
    parser,             \* self.parser: [flags, nchanges]
    modes,              \* self.modes, in insertion order: sequence of
                        \*   [name, func, flags, nchanges]
    subparsers,         \* self._subparsers is not None
    pc,                 \* position inside parse_args / parse_and_run
    entry,              \* "parse_args" or "parse_and_run"
    input,              \* the command line of the running call
    cmd_args,           \* args.__dict__, as _prepare_config mutates it
    original_cmd_args,  \* _prepare_config's copy of args.__dict__
    cur,                \* path _read_config is about to open
    stack,              \* `changes` of the pending _read_config frames
    config,             \* the configuration under construction
    stages,             \* history: the stages the running call executed
    chain,              \* history: raw documents read, descendant first
    merges,             \* history: the last _merge_recursively call
    applied,            \* history: outcome of _make_config_changes
    validated,          \* history: what the schema validator was given
    called,             \* history: callbacks invoked by parse_and_run
    outcome,            \* "none", "returned" or "raised"
    error,              \* the exception that ended the call ("" if none)
    result,             \* the value the call returned
    calls               \* number of parse_args/parse_and_run calls begun

vars == <<fs, schema_path, parser, modes, subparsers, pc, entry, input,
          cmd_args, original_cmd_args, cur, stack, config, stages, chain,
          merges, applied, validated, called, outcome, error, result, calls>>

----------------------------------------------------------------------------
(* Python values *)

VInt(n) == [i |-> n]
VStr(t) == [s |-> t]
VNone == [none |-> TRUE]
VList(q) == [l |-> q]
VMap(f) == [m |-> f]
VCallable(n) == [f |-> n]

IsMap(v) == DOMAIN v = {"m"}
IsStr(v) == DOMAIN v = {"s"}
IsCallable(v) == DOMAIN v = {"f"}

EmptyMap == VMap(<<>>)

\* a one-token string
Tok(t) == <<t>>

\* d[key] = value on a dict
DictSet(d, key, value) ==
    VMap([k \in DOMAIN d.m \cup {key} |-> IF k = key THEN value ELSE d.m[k]])

\* d.pop(key) on a dict that has the key: the dict without it
DictPop(d, key) == VMap([k \in DOMAIN d.m \ {key} |-> d.m[k]])

Has(d, key) == key \in DOMAIN d.m

----------------------------------------------------------------------------
(* _merge_recursively *)

\* a plausible bug: dict.update, no recursion into nested mappings
MergeShallow(cfg, changes) ==
    VMap([key \in DOMAIN cfg.m \cup DOMAIN changes.m |->
            IF key \in DOMAIN changes.m THEN changes.m[key] ELSE cfg.m[key]])

RECURSIVE Merge(_, _)
\* for key, value in changes.items(): every key is visited once, so the
\* loop is the pointwise update below
Merge(cfg, changes) ==
    VMap([key \in DOMAIN cfg.m \cup DOMAIN changes.m |->
            IF key \notin DOMAIN changes.m
            THEN cfg.m[key]
            ELSE LET value == changes.m[key]
                 IN  IF IsMap(value) /\ key \in DOMAIN cfg.m
                                     /\ IsMap(cfg.m[key])
                     THEN Merge(cfg.m[key], value)
                     ELSE value])

----------------------------------------------------------------------------
(* strings, YAML scalars, environment variables *)

RECURSIVE Split(_, _)
\* str.split(sep): cuts at EVERY occurrence of sep
Split(str, sep) ==
    IF \E j \in 1..Len(str) : str[j] = sep
    THEN LET j == CHOOSE j \in 1..Len(str) :
                     str[j] = sep /\ \A h \in 1..(j - 1) : str[h] # sep
         IN  <<SubSeq(str, 1, j - 1)>>
                 \o Split(SubSeq(str, j + 1, Len(str)), sep)
    ELSE <<str>>

Digits == {"1", "2", "3", "5", "6", "7"}
DigitValue(d) ==
    CASE d = "1" -> 1 [] d = "2" -> 2 [] d = "3" -> 3
      [] d = "5" -> 5 [] d = "6" -> 6 [] d = "7" -> 7

\* yaml.load on the text of an override value: the empty text is null, a
\* number is an int, "{}" and "[]" are the empty collections, any other
\* text is a plain string
YamlLoad(value) ==
    IF value = <<>> THEN VNone
    ELSE IF Len(value) = 1 /\ value[1] \in Digits
         THEN VInt(DigitValue(value[1]))
    ELSE IF value = <<"{}">> THEN EmptyMap
    ELSE IF value = <<"[]">> THEN VList(<<>>)
    ELSE VStr(value)

\* the process environment
Environ == [v \in {"$EXP"} |-> "experiments"]

\* os.path.expandvars
ExpandVars(path) ==
    [j \in DOMAIN path |->
        IF path[j] \in DOMAIN Environ THEN Environ[path[j]] ELSE path[j]]

----------------------------------------------------------------------------
(* _make_config_changes *)

RECURSIVE WalkError(_, _)
\* the exception raised by
\*     for part in parts[:-1]: assign_to = assign_to[part]
\*     assign_to[parts[-1]] = ...
\* or "" when the statement succeeds
WalkError(assign_to, parts) ==
    IF ~IsMap(assign_to) THEN "TypeError"
    ELSE IF Len(parts) = 1 THEN ""
    ELSE IF parts[1] \notin DOMAIN assign_to.m THEN "KeyError"
    ELSE WalkError(assign_to.m[parts[1]], Tail(parts))

RECURSIVE SetItem(_, _, _)

RECURSIVE SetItemDefault(_, _, _)
\* a plausible bug: dict.setdefault, a key that exists keeps its value
SetItemDefault(assign_to, parts, value) ==
    IF Len(parts) = 1
    THEN IF Has(assign_to, parts[1]) THEN assign_to
         ELSE DictSet(assign_to, parts[1], value)
    ELSE VMap([assign_to.m EXCEPT
                  ![parts[1]] = SetItemDefault(@, Tail(parts), value)])

\* the effect on the tree of the in-place assignment at the end of the walk
SetItem(assign_to, parts, value) ==
    IF Len(parts) = 1
    THEN DictSet(assign_to, parts[1], value)
    ELSE VMap([assign_to.m EXCEPT
                  ![parts[1]] = SetItem(@, Tail(parts), value)])

\* path, value = path_value.split('=')
SplitChange(path_value) == Split(path_value, "=")

RECURSIVE MakeConfigChangesFrom(_, _, _)
\* the loop of _make_config_changes from its j-th iteration on.  `splits`
\* logs the (path, value) pair of every iteration whose unpacking
\* succeeded; `at` is the iteration that raised.
MakeConfigChangesFrom(cfg, changes, j) ==
    IF j > Len(changes)
    THEN [config |-> cfg, error |-> "", at |-> 0, splits |-> <<>>]
    ELSE LET pv == SplitChange(changes[j])
         IN  IF Len(pv) # 2
             THEN [config |-> cfg, error |-> "ValueError", at |-> j,
                   splits |-> <<>>]
             ELSE LET path == pv[1]
                      value == pv[2]
                      parts == Split(path, ".")
                      err == WalkError(cfg, parts)
                  IN  IF err # ""
                      THEN [config |-> cfg, error |-> err, at |-> j,
                            splits |-> << <<path, value>> >>]
                      ELSE LET rest == MakeConfigChangesFrom(
                                          SetItem(cfg, parts, YamlLoad(value)),
                                          changes, j + 1)
                           IN  [rest EXCEPT
                                   !.splits = << <<path, value>> >> \o @]

MakeConfigChanges(cfg, changes) == MakeConfigChangesFrom(cfg, changes, 1)

----------------------------------------------------------------------------
(* the argument parser, as SpecificationParser uses it *)

kparent == Tok("parent")
kcmd == Tok("cmd_args")
kfunc == Tok("func")
kpath == Tok("config_path")
kchanges == Tok("config_changes")

ModeNames(ms) == {ms[j].name : j \in DOMAIN ms}

\* what the `config_changes` positionals of one parser leave in the
\* namespace when that parser declares n >= 1 of them (nargs='*',
\* default=[], action=ParseChanges): the first takes every remaining token,
\* each later one matches nothing and ParseChanges stores its default []
\* over the value of the one before
ParseChanges(n, tokens) ==
    IF n = 1 THEN VList([j \in DOMAIN tokens |-> VStr(tokens[j])])
    ELSE VList(<<>>)

\* the value of a flag of the command line: None unless given
FlagValue(inp, flag) ==
    IF flag \in DOMAIN inp.flags THEN VStr(inp.flags[flag]) ELSE VNone

\* self.parser.parse_args(args, namespace).__dict__, or ok = FALSE when the
\* parser exits (a trailing token where a mode name is expected)
ArgparseParse(p, ms, inp) ==
    LET top == (kpath :> VStr(inp.config_path))
                  @@ [flag \in p.flags |-> FlagValue(inp, flag)]
    IN  IF ms = <<>>
        THEN [ok |-> TRUE,
              ns |-> VMap(top @@ (kchanges :> ParseChanges(p.nchanges,
                                                           inp.changes)))]
        ELSE IF inp.mode = ""
        THEN [ok |-> inp.changes = <<>>, ns |-> VMap(top)]
        ELSE LET mode == ms[CHOOSE j \in DOMAIN ms : ms[j].name = inp.mode]
                 sub == [flag \in mode.flags |-> FlagValue(inp, flag)]
                           @@ (kchanges :> ParseChanges(mode.nchanges,
                                                        inp.changes))
                 defaults == IF mode.func = VNone THEN <<>>
                             ELSE (kfunc :> mode.func)
             IN  [ok |-> TRUE, ns |-> VMap(sub @@ defaults @@ top)]

----------------------------------------------------------------------------
(* bounds and the inputs drawn from them *)

MaxCalls == 2       \* parse_args / parse_and_run calls on one parser
MaxChanges == 2     \* override tokens on one command line
MaxChain == 3       \* documents in a `parent` chain

Seqs(S, n) == UNION {[1..len -> S] : len \in 0..n}

ka == Tok("a")
kb == Tok("b")
kc == Tok("c")
klr == Tok("learning_rate")
knet == Tok("network")
ktype == Tok("type")

\* the files of the parser runs, after examples/experiment1.yaml and
\* examples/experiment2.yaml of the tests; experiment3 has a grandparent
\* and a `cmd_args` key of its own
Exp1 == <<"experiments", "experiment1.yaml">>
Exp2 == <<"experiment2.yaml">>
Exp3 == <<"experiments", "experiment3.yaml">>
Missing == <<"missing.yaml">>
SchemaFile == <<"experiments", "schema.yaml">>

ExampleFiles ==
    (Exp1 :> VMap((klr :> VInt(4))
                   @@ (knet :> VMap(ktype :> VStr(Tok("LSTM"))))))
    @@ (Exp2 :> VMap((kparent :> VStr(<<"$EXP", "experiment1.yaml">>))
                      @@ (klr :> VInt(5))))
    @@ (Exp3 :> VMap((kparent :> VStr(Exp2))
                      @@ (knet :> VMap(kc :> VInt(1)))
                      @@ (kcmd :> VInt(7))))
    @@ (SchemaFile :> EmptyMap)

ConfigPaths == {Exp1, Exp3, Missing}
\* no schema, the schema file, a schema file that does not exist
SchemaPaths ==
    { <<>>, <<"$EXP", "schema.yaml">>, <<"$EXP", "missing.yaml">> }

\* override tokens of the parser runs
RunChanges ==
    { <<"cmd_args", "=", "1">>,
      <<"network", ".", "type", ".", "a", "=", "1">> }

TopFlags == {Tok("restart_from")}
ModeFlags == {Tok("checkpoint_dir")}
FlagTexts == {Tok("exp01")}
AllModeNames == {"train"}
Funcs == {VNone, VCallable("train"), VStr(<<"pkg", ".", "run">>), VInt(5)}

\* the importable modules and their attributes
Modules == (<<Tok("pkg")>> :> {Tok("run")})

ModeOf(ms, name) == ms[CHOOSE j \in DOMAIN ms : ms[j].name = name]

DeclaredFlags(p, ms, mode) ==
    p.flags \cup (IF mode = "" THEN {} ELSE ModeOf(ms, mode).flags)

\* the command lines a parser accepts flag-wise: a mode of the parser or
\* none, values for some of the flags declared on the top-level parser
\* and on the chosen mode, some override tokens
Inputs(p, ms) ==
    UNION {
        { [config_path |-> path, mode |-> mode, flags |-> flags,
           changes |-> changes] :
            path \in ConfigPaths,
            flags \in UNION {[D -> FlagTexts] :
                                D \in SUBSET DeclaredFlags(p, ms, mode)},
            changes \in Seqs(RunChanges, MaxChanges) } :
        mode \in {""} \cup ModeNames(ms) }

----------------------------------------------------------------------------
(* registration: add_argument, add_mode, and add_argument on a mode *)

Idle == pc = "idle"

RunVars == <<pc, entry, input, cmd_args, original_cmd_args, cur, stack,
             config, stages, chain, merges, applied, validated, called,
             outcome, error, result, calls>>

\* SpecificationParser.add_argument('--<flag>')
AddArgument(flag) ==
    /\ Idle
    /\ flag \notin parser.flags
    /\ parser' = [parser EXCEPT !.flags = @ \cup {flag}]
    /\ UNCHANGED <<fs, schema_path, modes, subparsers>>
    /\ UNCHANGED RunVars

\* add_mode(name, func).  The modes are registered before the first
\* parse, each under a name of its own.
AddMode(name, func) ==
    /\ Idle
    /\ calls = 0
    /\ name \notin ModeNames(modes)
    /\ subparsers' = TRUE
    /\ modes' = Append(modes, [name |-> name, func |-> func,
                               flags |-> {}, nchanges |-> 0])
    /\ UNCHANGED <<fs, schema_path, parser>>
    /\ UNCHANGED RunVars

\* add_argument('--<flag>') on the parser add_mode returned
AddModeArgument(j, flag) ==
    /\ Idle
    /\ j \in DOMAIN modes
    /\ flag \notin modes[j].flags
    /\ modes' = [modes EXCEPT ![j].flags = @ \cup {flag}]
    /\ UNCHANGED <<fs, schema_path, parser, subparsers>>
    /\ UNCHANGED RunVars

----------------------------------------------------------------------------
(* parse_args and parse_and_run, stage by stage *)

\* raise e: the exception leaves parse_args / parse_and_run uncaught
Raise(e) ==
    /\ outcome' = "raised"
    /\ error' = e
    /\ result' = VNone
    /\ pc' = "done"

Continue(next) ==
    /\ outcome' = "none"
    /\ error' = ""
    /\ result' = VNone
    /\ pc' = next

\* parse_args up to and including the two pops of _prepare_config:
\* one more `config_changes` positional on every mode parser, or on the
\* top-level parser when there is no mode; then the command line is parsed
ParseArgs(e, inp) ==
    /\ Idle
    /\ calls < MaxCalls
    /\ calls' = calls + 1
    /\ entry' = e
    /\ input' = inp
    /\ modes' = [j \in DOMAIN modes |->
                    [modes[j] EXCEPT !.nchanges = @ + 1]]
    /\ parser' = IF modes = <<>>
                 THEN [parser EXCEPT !.nchanges = @ + 1]
                 ELSE parser
    /\ stages' = <<"parse">>
    /\ chain' = <<>>
    /\ merges' = <<>>
    /\ applied' = <<>>
    /\ validated' = <<>>
    /\ called' = <<>>
    /\ stack' = <<>>
    /\ config' = EmptyMap
    /\ LET r == ArgparseParse(parser', modes', inp)
       IN  IF ~r.ok
           THEN /\ original_cmd_args' = EmptyMap
                /\ cmd_args' = EmptyMap
                /\ cur' = <<>>
                /\ Raise("SystemExit")
           ELSE /\ original_cmd_args' = r.ns
                /\ IF Has(r.ns, kchanges)
                   THEN /\ cmd_args' = DictPop(DictPop(r.ns, kpath), kchanges)
                        /\ cur' = inp.config_path
                        /\ Continue("read")
                   ELSE /\ cmd_args' = DictPop(r.ns, kpath)
                        /\ cur' = <<>>
                        /\ Raise("KeyError")
    /\ UNCHANGED <<fs, schema_path, subparsers>>

\* one activation of _read_config: open and load the file; with a
\* `parent` key keep the document as `changes` and recurse into the parent
ReadStep ==
    /\ pc = "read"
    /\ stages' = IF chain = <<>> THEN Append(stages, "load") ELSE stages
    /\ IF cur \notin DOMAIN fs
       THEN /\ Raise("FileNotFoundError")
            /\ UNCHANGED <<chain, stack, cur, config>>
       ELSE LET doc == fs[cur]
            IN  /\ chain' = Append(chain, doc)
                /\ IF Has(doc, kparent)
                   THEN /\ stack' = <<doc>> \o stack
                        /\ cur' = ExpandVars(doc.m[kparent].s)
                        /\ Continue("read")
                        /\ UNCHANGED config
                   ELSE /\ config' = doc
                        /\ Continue(IF stack = <<>> THEN "changes"
                                                    ELSE "merge")
                        /\ UNCHANGED <<stack, cur>>
    /\ UNCHANGED <<fs, schema_path, parser, modes, subparsers>>
    /\ UNCHANGED <<entry, input, cmd_args, original_cmd_args, merges,
                   applied, validated, called, calls>>

\* a plausible bug: the operands of the merge swapped, so that the values
\* of the ancestor win
MergeStepSwapped ==
    /\ pc = "merge"
    /\ LET changes == Head(stack)
           merged == Merge(changes, config)
       IN  /\ config' = merged
           /\ merges' = <<[base |-> changes, changes |-> config,
                           result |-> merged]>>
    /\ stack' = Tail(stack)
    /\ pc' = IF Tail(stack) = <<>> THEN "changes" ELSE "merge"
    /\ UNCHANGED <<fs, schema_path, parser, modes, subparsers>>
    /\ UNCHANGED <<entry, input, cmd_args, original_cmd_args, cur, stages,
                   chain, applied, validated, called, outcome, error,
                   result, calls>>

\* the return of one activation of _read_config that had a parent:
\* self._merge_recursively(config, changes)
MergeStep ==
    /\ pc = "merge"
    /\ LET changes == Head(stack)
           merged == Merge(config, changes)
       IN  /\ config' = merged
           /\ merges' = <<[base |-> config, changes |-> changes,
                           result |-> merged]>>
    /\ stack' = Tail(stack)
    /\ pc' = IF Tail(stack) = <<>> THEN "changes" ELSE "merge"
    /\ UNCHANGED <<fs, schema_path, parser, modes, subparsers>>
    /\ UNCHANGED <<entry, input, cmd_args, original_cmd_args, cur, stages,
                   chain, applied, validated, called, outcome, error,
                   result, calls>>

\* a plausible bug: the schema check is never reached
AfterChangesSkip == "attach"

\* the stage after _make_config_changes: validation only with a schema
AfterChanges == IF schema_path # <<>> THEN "validate" ELSE "attach"

\* a plausible bug: the exception of a failed override is swallowed and the
\* call goes on with the overrides applied so far
MakeChangesIgnore ==
    /\ pc = "changes"
    /\ stages' = Append(stages, "override")
    /\ LET list == original_cmd_args.m[kchanges].l
           changes == [j \in DOMAIN list |-> list[j].s]
           r == MakeConfigChanges(config, changes)
       IN  /\ applied' = <<[before |-> config, changes |-> changes,
                            after |-> r.config, error |-> r.error,
                            at |-> r.at, splits |-> r.splits]>>
           /\ config' = r.config
           /\ Continue(AfterChanges)
    /\ UNCHANGED <<fs, schema_path, parser, modes, subparsers>>
    /\ UNCHANGED <<entry, input, cmd_args, original_cmd_args, cur, stack,
                   chain, merges, validated, called, calls>>

\* self._make_config_changes(config, config_changes)
MakeChanges ==
    /\ pc = "changes"
    /\ stages' = Append(stages, "override")
    /\ LET list == original_cmd_args.m[kchanges].l
           changes == [j \in DOMAIN list |-> list[j].s]
           r == MakeConfigChanges(config, changes)
       IN  /\ applied' = <<[before |-> config, changes |-> changes,
                            after |-> r.config, error |-> r.error,
                            at |-> r.at, splits |-> r.splits]>>
           /\ config' = r.config
           /\ IF r.error # "" THEN Raise(r.error)
                              ELSE Continue(AfterChanges)
    /\ UNCHANGED <<fs, schema_path, parser, modes, subparsers>>
    /\ UNCHANGED <<entry, input, cmd_args, original_cmd_args, cur, stack,
                   chain, merges, validated, called, calls>>

\* the schema check: the schema file is opened and the validator, an
\* external library, accepts or rejects the configuration it is given
Validate ==
    /\ pc = "validate"
    /\ stages' = Append(stages, "validate")
    /\ \E accepted \in BOOLEAN :
          IF ExpandVars(schema_path) \notin DOMAIN fs
          THEN /\ Raise("FileNotFoundError")
               /\ UNCHANGED validated
          ELSE /\ validated' = <<config>>
               /\ IF accepted THEN Continue("attach")
                              ELSE Raise("SchemaError")
    /\ UNCHANGED <<fs, schema_path, parser, modes, subparsers>>
    /\ UNCHANGED <<entry, input, cmd_args, original_cmd_args, cur, stack,
                   config, chain, merges, applied, called, calls>>

\* a plausible bug: dict.setdefault, a `cmd_args` of the file or of an
\* override is kept
AttachKeep ==
    /\ pc = "attach"
    /\ stages' = Append(stages, "attach")
    /\ config' = IF Has(config, kcmd) THEN config
                 ELSE DictSet(config, kcmd, original_cmd_args)
    /\ error' = ""
    /\ IF entry = "parse_args"
       THEN /\ result' = config'
            /\ outcome' = "returned"
            /\ pc' = "done"
       ELSE /\ result' = VNone
            /\ outcome' = "none"
            /\ pc' = "dispatch"
    /\ UNCHANGED <<fs, schema_path, parser, modes, subparsers>>
    /\ UNCHANGED <<entry, input, cmd_args, original_cmd_args, cur, stack,
                   chain, merges, applied, validated, called, calls>>

\* config = dict(config); config['cmd_args'] = original_cmd_args; return
Attach ==
    /\ pc = "attach"
    /\ stages' = Append(stages, "attach")
    /\ config' = DictSet(config, kcmd, original_cmd_args)
    /\ error' = ""
    /\ IF entry = "parse_args"
       THEN /\ result' = config'
            /\ outcome' = "returned"
            /\ pc' = "done"
       ELSE /\ result' = VNone
            /\ outcome' = "none"
            /\ pc' = "dispatch"
    /\ UNCHANGED <<fs, schema_path, parser, modes, subparsers>>
    /\ UNCHANGED <<entry, input, cmd_args, original_cmd_args, cur, stack,
                   chain, merges, applied, validated, called, calls>>

\* importlib.import_module('.'.join(func.split('.')[:-1])) and getattr
Resolve(name) ==
    LET parts == Split(name, ".")
        module == SubSeq(parts, 1, Len(parts) - 1)
        attr == parts[Len(parts)]
    IN  IF module = <<>> THEN [error |-> "ValueError", func |-> VNone]
        ELSE IF module \notin DOMAIN Modules
        THEN [error |-> "ImportError", func |-> VNone]
        ELSE IF attr \notin Modules[module]
        THEN [error |-> "AttributeError", func |-> VNone]
        ELSE [error |-> "", func |-> VCallable(attr[1])]

\* what a callback returns: the callbacks of the runs return their own
\* name with the keyword arguments they were called with
Invoke(func, kwargs) == VList(<<VStr(Tok(func.f)), kwargs>>)

\* the dispatch of parse_and_run on config['cmd_args']['func']
Dispatch ==
    /\ pc = "dispatch"
    /\ stages' = Append(stages, "dispatch")
    /\ LET args == config.m[kcmd]
           func == args.m[kfunc]
           resolved == Resolve(func.s)
       IN  IF ~Has(args, kfunc)
           THEN Raise("KeyError") /\ UNCHANGED called
           ELSE IF IsCallable(func)
           THEN /\ called' = Append(called, [func |-> func, kwargs |-> config])
                /\ result' = Invoke(func, config)
                /\ outcome' = "returned" /\ error' = "" /\ pc' = "done"
           ELSE IF ~IsStr(func)
           THEN Raise("ValueError") /\ UNCHANGED called
           ELSE IF resolved.error # ""
           THEN Raise(resolved.error) /\ UNCHANGED called
           ELSE /\ called' = Append(called, [func |-> resolved.func,
                                             kwargs |-> config])
                /\ result' = Invoke(resolved.func, config)
                /\ outcome' = "returned" /\ error' = "" /\ pc' = "done"
    /\ UNCHANGED <<fs, schema_path, parser, modes, subparsers>>
    /\ UNCHANGED <<entry, input, cmd_args, original_cmd_args, cur, stack,
                   config, chain, merges, applied, validated, calls>>

----------------------------------------------------------------------------
(* the parser: construction, then registrations and calls in any order *)

NoInput == [config_path |-> <<>>, mode |-> "", flags |-> <<>>,
            changes |-> <<>>]

\* the state of a parser that has not been inside a call
Quiet ==
    /\ entry = "parse_args"
    /\ input = NoInput
    /\ cmd_args = EmptyMap
    /\ original_cmd_args = EmptyMap
    /\ cur = <<>>
    /\ stack = <<>>
    /\ config = EmptyMap
    /\ stages = <<>>
    /\ chain = <<>>
    /\ merges = <<>>
    /\ applied = <<>>
    /\ validated = <<>>
    /\ called = <<>>
    /\ outcome = "none"
    /\ error = ""
    /\ result = VNone
    /\ calls = 0

\* SpecificationParser(schema_path)
Init ==
    /\ fs = ExampleFiles
    /\ schema_path \in SchemaPaths
    /\ parser = [flags |-> {}, nchanges |-> 0]
    /\ modes = <<>>
    /\ subparsers = FALSE
    /\ pc = "idle"
    /\ Quiet

\* the call is over: its caller has the configuration or the exception
Return ==
    /\ pc = "done"
    /\ pc' = "idle"
    /\ entry' = "parse_args"
    /\ input' = NoInput
    /\ cmd_args' = EmptyMap
    /\ original_cmd_args' = EmptyMap
    /\ cur' = <<>>
    /\ stack' = <<>>
    /\ config' = EmptyMap
    /\ stages' = <<>>
    /\ chain' = <<>>
    /\ merges' = <<>>
    /\ applied' = <<>>
    /\ validated' = <<>>
    /\ called' = <<>>
    /\ outcome' = "none"
    /\ error' = ""
    /\ result' = VNone
    /\ UNCHANGED <<fs, schema_path, parser, modes, subparsers, calls>>

Next ==
    \/ \E flag \in TopFlags : AddArgument(flag)
    \/ \E name \in AllModeNames, func \in Funcs : AddMode(name, func)
    \/ \E j \in DOMAIN modes, flag \in ModeFlags : AddModeArgument(j, flag)
    \/ \E e \in {"parse_args", "parse_and_run"} :
          \E inp \in Inputs(parser, modes) : ParseArgs(e, inp)
    \/ ReadStep
    \/ MergeStep
    \/ MakeChanges
    \/ Validate
    \/ Attach
    \/ Dispatch
    \/ Return

Spec == Init /\ [][Next]_vars

----------------------------------------------------------------------------
(* _merge_recursively on its own: every pair of trees of depth two *)

FnsOver(K, V) == UNION {[D -> V] : D \in SUBSET K}

TreeKeys == {ka, kb}
TreeLeaves == {VInt(1), VInt(2), VList(<<VInt(1)>>)}
Trees1 == {VMap(f) : f \in FnsOver(TreeKeys, TreeLeaves)}
Trees == {VMap(f) : f \in FnsOver(TreeKeys, TreeLeaves \cup Trees1)}

\* a call that is inside its configuration stages, everything else as
\* after a parse of a command line with the override tokens `changes`
InsideCall(changes) ==
    /\ parser = [flags |-> {}, nchanges |-> 1]
    /\ modes = <<>>
    /\ subparsers = FALSE
    /\ entry = "parse_args"
    /\ input = [NoInput EXCEPT !.config_path = Exp1, !.changes = changes]
    /\ cmd_args = EmptyMap
    /\ original_cmd_args =
          VMap((kpath :> VStr(Exp1))
               @@ (kchanges :> VList([j \in DOMAIN changes |->
                                         VStr(changes[j])])))
    /\ applied = <<>>
    /\ validated = <<>>
    /\ called = <<>>
    /\ outcome = "none"
    /\ error = ""
    /\ result = VNone
    /\ calls = 1

InitMerge ==
    /\ fs = ExampleFiles
    /\ schema_path = <<>>
    /\ InsideCall(<<>>)
    /\ pc = "merge"
    /\ cur = Exp1
    /\ config \in Trees
    /\ stack \in {<<changes>> : changes \in Trees}
    /\ stages = <<"parse", "load">>
    /\ chain = <<>>
    /\ merges = <<>>

NextMerge == MergeStep

SpecMerge == InitMerge /\ [][NextMerge]_vars

----------------------------------------------------------------------------
(* _read_config on its own: every chain of documents *)

FileNames == <<"f1.yaml", "f2.yaml", "f3.yaml", "f4.yaml", "f5.yaml">>

\* the path of the j-th file of a chain, and the text of a link to it
FilePath(j) == <<"experiments", FileNames[j]>>
FileLink(j) == <<"$EXP", FileNames[j]>>

\* what the documents of a chain hold besides their parent link
Bodies ==
    { EmptyMap,
      VMap(ka :> VInt(1)),
      VMap(ka :> VInt(2)),
      VMap(ka :> VList(<<VInt(1)>>)),
      VMap(kb :> VInt(2)),
      VMap(kb :> VMap(ka :> VInt(1))),
      VMap(kb :> VMap(ka :> VInt(2))),
      VMap(kb :> VMap(kb :> VInt(1))),
      VMap((ka :> VInt(1)) @@ (kb :> VMap(ka :> VInt(1)))) }

\* the files of a chain: the first is the root ancestor, each later one
\* names the one before it as its parent
ChainFiles(bodies) ==
    [path \in {FilePath(j) : j \in DOMAIN bodies} |->
        LET j == CHOOSE j \in DOMAIN bodies : FilePath(j) = path
        IN  IF j = 1 THEN bodies[j]
            ELSE DictSet(bodies[j], kparent, VStr(FileLink(j - 1)))]

InitLoad ==
    /\ \E n \in 1..MaxChain :
          \E bodies \in [1..n -> Bodies] :
              /\ fs = ChainFiles(bodies)
              /\ cur = FilePath(n)
    /\ schema_path = <<>>
    /\ InsideCall(<<>>)
    /\ pc = "read"
    /\ config = EmptyMap
    /\ stack = <<>>
    /\ stages = <<"parse">>
    /\ chain = <<>>
    /\ merges = <<>>

NextLoad == ReadStep \/ MergeStep

SpecLoad == InitLoad /\ [][NextLoad]_vars

\* the scheduling of NextLoad: a call that is running takes its next step
FairLoad == SpecLoad /\ WF_vars(NextLoad)

----------------------------------------------------------------------------
(* _make_config_changes on its own: every short list of override tokens *)

\* {a: {b: 1}, c: [1]}, {a: 1} and {a: {b: {c: 2}}}
ChangeConfigs ==
    { VMap((ka :> VMap(kb :> VInt(1))) @@ (kc :> VList(<<VInt(1)>>))),
      VMap(ka :> VInt(1)),
      VMap(ka :> VMap(kb :> VMap(kc :> VInt(2)))) }

ChangeTexts ==
    { <<"a", ".", "b", "=", "2">>,
      <<"a", ".", "b", "=", "3">>,
      <<"a", ".", "c", "=", "3">>,
      <<"a", "=", "5">>,
      <<"a", "=", "{}">>,
      <<"a", ".", "b", ".", "c", "=", "7">>,
      <<"b", ".", "c", "=", "1">>,
      <<"b", ".", "c", "=", "1", "=", "2">>,
      <<"c", "=">>,
      <<"abc">>,
      <<"a", "=", "b", "=", "c">> }

InitChanges ==
    /\ fs = ExampleFiles
    /\ schema_path = <<>>
    /\ \E changes \in Seqs(ChangeTexts, MaxChanges) : InsideCall(changes)
    /\ pc = "changes"
    /\ cur = Exp1
    /\ config \in ChangeConfigs
    /\ stack = <<>>
    /\ stages = <<"parse", "load">>
    /\ chain = <<>>
    /\ merges = <<>>

NextChanges == MakeChanges

SpecChanges == InitChanges /\ [][NextChanges]_vars

----------------------------------------------------------------------------
(* trees, as the properties speak of them *)

RECURSIVE PathsOf(_)
\* the key paths of a tree, the empty path of its root included
PathsOf(tree) ==
    IF ~IsMap(tree) THEN {<<>>}
    ELSE {<<>>} \cup UNION {{<<k>> \o p : p \in PathsOf(tree.m[k])} :
                               k \in DOMAIN tree.m}

RECURSIVE Defined(_, _)
Defined(tree, path) ==
    \/ path = <<>>
    \/ /\ IsMap(tree)
       /\ path[1] \in DOMAIN tree.m
       /\ Defined(tree.m[path[1]], Tail(path))

RECURSIVE Lookup(_, _)
Lookup(tree, path) ==
    IF path = <<>> THEN tree ELSE Lookup(tree.m[path[1]], Tail(path))

IsPrefix(p, q) == Len(p) <= Len(q) /\ SubSeq(q, 1, Len(p)) = p
Related(p, q) == IsPrefix(p, q) \/ IsPrefix(q, p)

----------------------------------------------------------------------------
(* C1 *)

RECURSIVE MergedAsClaimed(_, _, _)
MergedAsClaimed(base, changes, res) ==
    /\ IsMap(res)
    /\ DOMAIN res.m = DOMAIN base.m \cup DOMAIN changes.m
    /\ \A k \in DOMAIN res.m :
          IF k \notin DOMAIN changes.m
          THEN res.m[k] = base.m[k]
          ELSE IF k \in DOMAIN base.m /\ IsMap(base.m[k])
                                      /\ IsMap(changes.m[k])
          THEN MergedAsClaimed(base.m[k], changes.m[k], res.m[k])
          ELSE res.m[k] = changes.m[k]

\* C1: after merge(base, changes) a key that is only in base keeps its
\* value, a key whose values in base and in changes are both mappings holds
\* their recursive merge, every other key of changes holds the value of
\* changes (lists and scalars replaced wholesale); merging the empty mapping
\* leaves base unchanged; the merged tree is the configuration the loader
\* goes on with.
C1_MergeContract ==
    \A j \in DOMAIN merges :
        /\ MergedAsClaimed(merges[j].base, merges[j].changes,
                           merges[j].result)
        /\ merges[j].changes = EmptyMap => merges[j].result = merges[j].base
        /\ pc = "changes" => config = merges[j].result

\* a merge with a key only in base and a key whose two mappings were
\* merged into a third
C1_Witness ==
    /\ merges # <<>>
    /\ LET r == merges[1]
       IN  /\ DOMAIN r.base.m \ DOMAIN r.changes.m # {}
           /\ \E k \in DOMAIN r.base.m \cap DOMAIN r.changes.m :
                 /\ IsMap(r.base.m[k]) /\ IsMap(r.changes.m[k])
                 /\ r.result.m[k] # r.base.m[k]
                 /\ r.result.m[k] # r.changes.m[k]

----------------------------------------------------------------------------
(* C2 *)

\* the raw documents of the chain on disk, root ancestor first
ChainDocs == [j \in 1..Cardinality(DOMAIN fs) |-> fs[FilePath(j)]]

RECURSIVE MergedInOrder(_, _)
\* the first j documents merged one after another onto the first
MergedInOrder(docs, j) ==
    IF j = 1 THEN docs[1] ELSE Merge(MergedInOrder(docs, j - 1), docs[j])

\* the most-derived document that defines the path
MostDerived(docs, path) ==
    CHOOSE j \in DOMAIN docs :
        /\ Defined(docs[j], path)
        /\ \A h \in DOMAIN docs : Defined(docs[h], path) => h <= j

LoadedAsClaimed ==
    LET docs == ChainDocs
        n == Len(docs)
    IN  /\ chain = [j \in 1..n |-> docs[n + 1 - j]]
        /\ config = MergedInOrder(docs, n)
        /\ \A path \in PathsOf(config) :
              ~IsMap(Lookup(config, path)) =>
                  /\ \E j \in 1..n : Defined(docs[j], path)
                  /\ Lookup(config, path)
                        = Lookup(docs[MostDerived(docs, path)], path)
        /\ \A j \in 1..n : \A k \in DOMAIN docs[j].m :
              /\ Has(config, k)
              /\ (\A h \in 1..n : h # j => ~Has(docs[h], k))
                    => config.m[k] = docs[j].m[k]
        /\ IF n > 1
           THEN Has(config, kparent)
                   /\ config.m[kparent] = VStr(FileLink(n - 1))
           ELSE ~Has(config, kparent)

\* C2: loading the most-derived document of a finite acyclic parent chain
\* terminates, and the loaded configuration is the raw documents merged one
\* after another, ancestor to descendant, onto the root ancestor's: every
\* value that is not a mapping is the one of the most-derived document
\* that defines its path, the keys of the ancestors survive, and `parent`
\* holds the loaded document's own parent path.
C2_Load ==
    /\ [](pc = "changes" => LoadedAsClaimed)
    /\ <>(pc = "changes")

\* a chain of three was loaded: the child changed a value inside a mapping
\* of an ancestor, and a key that only the root defines survived
C2_Witness ==
    /\ pc = "changes"
    /\ Len(chain) = 3
    /\ \E k \in DOMAIN chain[3].m :
          /\ ~Has(chain[2], k) /\ ~Has(chain[1], k)
          /\ config.m[k] = chain[3].m[k]
    /\ \E k \in DOMAIN chain[1].m \cap DOMAIN chain[2].m :
          /\ k # kparent
          /\ IsMap(chain[1].m[k]) /\ IsMap(chain[2].m[k])
          /\ config.m[k] # chain[1].m[k]
          /\ config.m[k] # chain[2].m[k]

----------------------------------------------------------------------------
(* override tokens, as the properties read them *)

HasEq(text) == \E j \in DOMAIN text : text[j] = "="
OneEq(text) == Cardinality({j \in DOMAIN text : text[j] = "="}) = 1
FirstEq(text) ==
    CHOOSE j \in DOMAIN text :
        text[j] = "=" /\ \A h \in 1..(j - 1) : text[h] # "="
TextBefore(text) == SubSeq(text, 1, FirstEq(text) - 1)
TextAfter(text) == SubSeq(text, FirstEq(text) + 1, Len(text))
PathOf(text) == Split(TextBefore(text), ".")
ValueOf(text) == YamlLoad(TextAfter(text))

\* the iterations of the loop that were begun
Begun(r) == IF r.at = 0 THEN DOMAIN r.changes ELSE 1..r.at

\* C3: an override token with at least one "=" is split on the FIRST "=":
\* the path is the text before it, the raw value all the text after it,
\* further "=" included.
C3_SplitOnFirst ==
    \A n \in DOMAIN applied :
        LET r == applied[n]
        IN  \A j \in Begun(r) :
                HasEq(r.changes[j]) =>
                    /\ j <= Len(r.splits)
                    /\ r.splits[j] = <<TextBefore(r.changes[j]),
                                       TextAfter(r.changes[j])>>

----------------------------------------------------------------------------
(* C4 *)

\* the last override of the list for the path of the j-th
LastFor(changes, j) ==
    CHOOSE h \in DOMAIN changes :
        /\ PathOf(changes[h]) = PathOf(changes[j])
        /\ \A g \in DOMAIN changes :
              PathOf(changes[g]) = PathOf(changes[j]) => g <= h

\* the keys no override touches keep their values
UntouchedKept(r) ==
    \A path \in PathsOf(r.before) :
        (\A j \in DOMAIN r.changes : ~Related(path, PathOf(r.changes[j])))
            => /\ Defined(r.after, path)
               /\ Lookup(r.after, path) = Lookup(r.before, path)

\* C4 as stated: after a successful apply_changes the value at the path of
\* every override is the parsed value of the last override for that path,
\* and the keys that no override targets keep their values.
C4_LastWins ==
    \A n \in DOMAIN applied :
        LET r == applied[n]
        IN  r.error = "" =>
                /\ \A j \in DOMAIN r.changes :
                      LET path == PathOf(r.changes[j])
                      IN  /\ Defined(r.after, path)
                          /\ Lookup(r.after, path)
                                = ValueOf(r.changes[LastFor(r.changes, j)])
                /\ UntouchedKept(r)

\* C4, amended: the same, for the paths that no later override replaces
\* from above or changes from below, i.e. no override after the last one
\* for the path targets a proper prefix or a proper extension of it.
C4_LastWinsAmended ==
    \A n \in DOMAIN applied :
        LET r == applied[n]
        IN  r.error = "" =>
                /\ r.at = 0
                /\ config = r.after
                /\ \A j \in DOMAIN r.changes :
                      LET path == PathOf(r.changes[j])
                          last == LastFor(r.changes, j)
                      IN  (\A g \in DOMAIN r.changes :
                              g > last =>
                                 \/ PathOf(r.changes[g]) = path
                                 \/ ~Related(PathOf(r.changes[g]), path))
                          => /\ Defined(r.after, path)
                             /\ Lookup(r.after, path)
                                   = ValueOf(r.changes[last])
                /\ UntouchedKept(r)

\* two overrides of one path with different values were applied, and
\* another one created a key
C4_Witness ==
    /\ applied # <<>>
    /\ LET r == applied[1]
       IN  /\ r.error = ""
           /\ \E j, h \in DOMAIN r.changes :
                 /\ j < h
                 /\ PathOf(r.changes[j]) = PathOf(r.changes[h])
                 /\ ValueOf(r.changes[j]) # ValueOf(r.changes[h])
                 /\ Defined(r.before, PathOf(r.changes[j]))
                 /\ Lookup(r.after, PathOf(r.changes[j]))
                       = ValueOf(r.changes[h])
           /\ PathsOf(r.before) \subseteq PathsOf(r.after)

----------------------------------------------------------------------------
(* C5 *)

\* a segment of the path before the last is missing from the tree or is
\* not a mapping
BadIntermediate(tree, path) ==
    \E h \in 1..(Len(path) - 1) :
        LET pre == SubSeq(path, 1, h)
        IN  ~Defined(tree, pre) \/ ~IsMap(Lookup(tree, pre))

\* C5: an override whose path has an intermediate segment that is missing
\* from the configuration or is not a mapping fails with a lookup error
\* (KeyError, or the TypeError of subscripting a value that is no mapping),
\* assigns nothing, and the call returns no configuration.  The
\* configuration the override meets is the one the overrides before it
\* left.  A token with a second "=" fails as well, with the ValueError of
\* the unpacking, and assigns nothing either.
C5_PathFailure ==
    \A n \in DOMAIN applied :
        LET r == applied[n]
        IN  \A j \in DOMAIN r.changes :
                LET earlier == MakeConfigChanges(r.before,
                                   SubSeq(r.changes, 1, j - 1))
                    text == r.changes[j]
                IN  (/\ earlier.error = ""
                     /\ HasEq(text)
                     /\ BadIntermediate(earlier.config, PathOf(text)))
                    => /\ r.at = j
                       /\ OneEq(text) => r.error \in {"KeyError", "TypeError"}
                       /\ ~OneEq(text) => r.error = "ValueError"
                       /\ r.after = earlier.config
                       /\ config = r.after
                       /\ pc = "done"
                       /\ outcome = "raised"
                       /\ error = r.error
                       /\ result = VNone

\* {a: 1} with the override a.b=2: the TypeError, nothing assigned
C5_Witness ==
    /\ applied # <<>>
    /\ LET r == applied[1]
       IN  /\ r.before = VMap(ka :> VInt(1))
           /\ r.changes = << <<"a", ".", "b", "=", "2">> >>
           /\ r.error = "TypeError"
           /\ r.after = r.before
    /\ outcome = "raised"

----------------------------------------------------------------------------
(* C6, C7 *)

Ran(stage) == \E j \in DOMAIN stages : stages[j] = stage

\* the callback the selected mode was registered with, None without one
Registered ==
    IF input.mode = "" THEN VNone ELSE ModeOf(modes, input.mode).func

\* C6: the configuration parse_args returns has a key `cmd_args` that holds
\* the parsed command line: config_path, every flag declared on the
\* top-level parser and on the selected mode, and func exactly when the
\* selected mode has a callback; whatever the file or the overrides put
\* under `cmd_args`.
C6_CmdArgs ==
    Ran("attach") =>
        /\ Has(config, kcmd)
        /\ LET args == config.m[kcmd]
           IN  /\ IsMap(args)
               /\ Has(args, kpath)
               /\ args.m[kpath] = VStr(input.config_path)
               /\ \A flag \in DeclaredFlags(parser, modes, input.mode) :
                     /\ Has(args, flag)
                     /\ args.m[flag] = IF flag \in DOMAIN input.flags
                                       THEN VStr(input.flags[flag])
                                       ELSE VNone
               /\ IF Registered # VNone
                  THEN Has(args, kfunc) /\ args.m[kfunc] = Registered
                  ELSE ~Has(args, kfunc)
        /\ (pc = "done" /\ outcome = "returned" /\ entry = "parse_args")
              => result = config

\* parse_args returned for a file with a `cmd_args` key and an override of
\* `cmd_args`, a mode with a callback selected and a flag given
C6_Witness ==
    /\ pc = "done"
    /\ outcome = "returned"
    /\ entry = "parse_args"
    /\ input.config_path = Exp3
    /\ applied # <<>>
    /\ Has(applied[1].before, kcmd)
    /\ applied[1].before.m[kcmd] = VInt(7)
    /\ applied[1].after.m[kcmd] = VInt(1)
    /\ input.mode = "train"
    /\ Registered # VNone
    /\ input.flags # <<>>
    /\ IsMap(result.m[kcmd])

kcheckpoint == Tok("checkpoint_dir")

\* C7: with the flag --checkpoint-dir declared on the mode `train`,
\* parse_args(['conf.yaml', 'train', '--checkpoint-dir', X]) returns a
\* configuration whose top-level key checkpoint_dir is X.
C7_ModeFlagTopLevel ==
    (/\ pc = "done"
     /\ outcome = "returned"
     /\ entry = "parse_args"
     /\ input.mode = "train"
     /\ kcheckpoint \in DOMAIN input.flags)
    => /\ Has(result, kcheckpoint)
       /\ result.m[kcheckpoint] = VStr(input.flags[kcheckpoint])

----------------------------------------------------------------------------
(* C8 *)

\* C8: parse_and_run calls an invocable func exactly once with the final
\* configuration as keyword arguments and returns its result, resolves a
\* dotted string and calls it the same way, and in every other case, a
\* mode without callback included, fails with the invalid-callback error
\* (the ValueError of the last branch) and calls nothing.
C8_Dispatch ==
    (pc = "done" /\ Ran("dispatch")) =>
        IF IsCallable(Registered) \/ IsStr(Registered)
        THEN /\ outcome = "returned"
             /\ Len(called) = 1
             /\ IsCallable(Registered) => called[1].func = Registered
             /\ called[1].kwargs = config
             /\ Has(config, kcmd)
             /\ result = Invoke(called[1].func, config)
        ELSE /\ outcome = "raised"
             /\ error = "ValueError"
             /\ called = <<>>

----------------------------------------------------------------------------
(* C9 *)

ExpectedStages ==
    <<"parse", "load", "override">>
        \o (IF schema_path # <<>> THEN <<"validate">> ELSE <<>>)
        \o <<"attach">>
        \o (IF entry = "parse_and_run" THEN <<"dispatch">> ELSE <<>>)

\* C9: the stages of a call run in the order parse, load, override,
\* validate (with a schema path only), attach; the validator is given the
\* loaded configuration with every override of the parsed command line
\* applied and before cmd_args is attached; a stage that fails is the last
\* one that runs, and the call returns nothing.
C9_StageOrder ==
    /\ IsPrefix(stages, ExpectedStages)
    /\ (pc = "done" /\ outcome = "returned") => stages = ExpectedStages
    /\ applied # <<>> =>
          /\ chain # <<>>
          /\ stack = <<>>
          /\ applied[1].changes
                = [j \in DOMAIN original_cmd_args.m[kchanges].l |->
                      original_cmd_args.m[kchanges].l[j].s]
    /\ schema_path = <<>> => validated = <<>>
    /\ \A n \in DOMAIN validated :
          /\ applied # <<>>
          /\ applied[1].error = ""
          /\ applied[1].at = 0
          /\ validated[n] = applied[1].after
          /\ Has(validated[n], kcmd)
                => validated[n].m[kcmd] # original_cmd_args
    /\ outcome = "raised" =>
          /\ pc = "done"
          /\ error # ""
          /\ result = VNone
          /\ stages[Len(stages)] \in {"parse", "load"} => applied = <<>>
          /\ stages[Len(stages)] \in {"parse", "load", "override"}
                => validated = <<>>
          /\ stages[Len(stages)] # "dispatch"
                => /\ ~Ran("attach")
                   /\ called = <<>>
                   /\ Has(config, kcmd)
                         => config.m[kcmd] # original_cmd_args

\* a call with a schema, a parent chain and overrides returned: the
\* validator saw the overridden configuration
C9_Witness ==
    /\ pc = "done"
    /\ outcome = "returned"
    /\ validated # <<>>
    /\ Len(chain) >= 2
    /\ applied[1].changes # <<>>
    /\ validated[1] # applied[1].before
    /\ validated[1] # config

----------------------------------------------------------------------------
(* C10 *)

\* C10: after any number of calls the top-level parser (without modes) and
\* every mode parser has exactly one `config_changes` positional, so that
\* a later call returns what a first call returns for its tokens: the
\* override tokens of the command line are the config_changes it parsed.
C10_OneChangesArgument ==
    /\ calls >= 1 =>
          /\ modes = <<>> => parser.nchanges = 1
          /\ \A j \in DOMAIN modes : modes[j].nchanges = 1
    /\ (pc = "done" /\ outcome = "returned" /\ entry = "parse_args") =>
          result.m[kcmd].m[kchanges]
             = VList([j \in DOMAIN input.changes |-> VStr(input.changes[j])])

====
